---- MODULE Spec2Model ----
(***************************************************************************)
(* Request authentication and quota enforcement of the NotebookLM          *)
(* Reimagined backend: backend/app/services/auth.py (credential            *)
(* resolution, API-key validation, the in-memory rate limiter, scope and   *)
(* bearer-only dependencies), backend/app/routers/api_keys.py (the key     *)
(* management endpoints) and backend/app/main.py (the exception handler    *)
(* and response middleware every response passes through).                 *)
(*                                                                         *)
(* Every dependency and handler modelled here is a coroutine without a     *)
(* suspension point (the store client is called synchronously), so one     *)
(* request is one atomic step of the process's event loop; concurrent      *)
(* requests are requests that are pending at the same time and are run in  *)
(* any order.  rate_limit_store is a module-level dict: one per process.   *)
(* Processes that serve the same store (one per serverless instance,       *)
(* backend/api/index.py) each run their own event loop: between the store  *)
(* calls of a request in one process, another process may call the store.  *)
(***************************************************************************)
EXTENDS Integers, Sequences, FiniteSets, TLC

VARIABLES
    api_keys,          \* the store's api_keys table: id -> row
    created,           \* how many rows the store has ever inserted (ids are never reused)
    rate_limit_store,  \* auth.py rate_limit_store: id -> {"minute": {}, "day": {}}
    now,               \* the clock (time.time(), datetime.now), whole seconds
    issued_for,        \* history: the key id each generated secret was issued for, in order
    resp,              \* the HTTP response of the last request handled
    pending,           \* limiter calls received and not yet run: id -> count
    log,               \* history: the limiter calls run so far, in order
    io,                \* the store as the next request finds it: up, or failing reads or writes
    workers            \* further server processes sharing the store: worker -> its request in hand

vars == <<api_keys, created, rate_limit_store, now, issued_for, resp, pending, log, io, workers>>

(***************************************************************************)
(* Bounds of the model.                                                    *)
(***************************************************************************)
\* MaxKeys: rows create_api_key inserts in the lifecycle; MaxIssued: secrets
\* generate_api_key draws there; MaxRpm, MaxRpd: largest limits a key is
\* given; MaxUses: largest total_requests of a row, and the API-key requests
\* the worker processes take; MaxMinutes: minutes the
\* clock runs; MaxCalls: calls of check_rate_limit in flight together;
\* MaxDays: days the clock is moved ahead.
MaxKeys == 1
MaxIssued == 2
MaxRpm == 2
MaxRpd == 3
MaxUses == 2
MaxMinutes == 2
MaxCalls == 4
MaxDays == 1

(***************************************************************************)
(* Program constants.                                                      *)
(***************************************************************************)
MinuteLength == 60
DayLength == 86400

None == "None"

\* Optional[T]: <<>> is None, <<x>> is the value x.
Some(x) == <<x>>
Nothing == <<>>

KeyIds == 1..MaxKeys
Users == {"u1", "u2"}
Ips == {"10.0.0.1", "10.0.0.2"}
ScopeNames == {"*", "read", "notebooks", "chat"}

(***************************************************************************)
(* Python dict helpers used by check_rate_limit.                           *)
(***************************************************************************)
EmptyDict == [k \in {} |-> 0]

DictGet(d, k, default) == IF k \in DOMAIN d THEN d[k] ELSE default

DictSet(d, k, v) == [j \in DOMAIN d \cup {k} |-> IF j = k THEN v ELSE d[j]]

\* {k: v for k, v in d.items() if k >= key - 1}
CleanOldKeepsAll(d, key) == d
CleanOldDropsAll(d, key) == EmptyDict
CleanOld(d, key) == [k \in {j \in DOMAIN d : j >= key - 1} |-> d[k]]

(***************************************************************************)
(* HTTPException(status_code, detail, headers) and the absence of one.     *)
(***************************************************************************)
NoHeaders == [h \in {} |-> 0]

HTTPException(status_code, detail, headers) ==
    [status_code |-> status_code, detail |-> detail, headers |-> headers]

\* A detail string: its fixed text and what is formatted into it.
Detail(msg) == [msg |-> msg, limit |-> 0, what |-> ""]

NoException == [status_code |-> 0, detail |-> Detail(""), headers |-> NoHeaders]

\* An exception that is no HTTPException: what .execute() raises when the
\* store cannot be reached or refuses the call.  It has no status code.
StoreErrorAsInvalid ==
    [status_code |-> 401, detail |-> Detail("Invalid API key"), headers |-> NoHeaders]
StoreError == [status_code |-> 0, detail |-> Detail("store call failed"), headers |-> NoHeaders]
IsHTTPException(exc) == exc.status_code # 0

\* f"Rate limit exceeded: {limit} requests per {window}"
RateLimitDetail(limit, window) ==
    [msg |-> "Rate limit exceeded", limit |-> limit, what |-> window]

\* headers={"Retry-After": str(length - int(now % length))}
RetryAfterNoSubtract(t, length) == [h \in {"Retry-After"} |-> t % length]
RetryAfterHeader(t, length) == [h \in {"Retry-After"} |-> length - (t % length)]

(***************************************************************************)
(* check_rate_limit(api_key_id, rpm_limit, rpd_limit), auth.py 42-79.      *)
(* Returns the exception raised (NoException when it returns True) and the *)
(* store it leaves behind.                                                 *)
(***************************************************************************)
MinuteKeyStuck(t) == 0
MinuteKey(t) == t \div MinuteLength
DayKey(t) == t \div DayLength

LimitReachedIgnoresLimit(count, limit) == count >= MaxRpm
LimitReachedOffByOne(count, limit) == count > limit
LimitReached(count, limit) == count >= limit

\* store["minute"][minute_key] = minute_count + 1 ; store["day"][day_key] = day_count + 1
IncrementCountersLost(store, minute_key, day_key, minute_count, day_count) ==
    [minute |-> DictSet(store.minute, minute_key, minute_count),
     day    |-> DictSet(store.day, day_key, day_count)]
IncrementCounters(store, minute_key, day_key, minute_count, day_count) ==
    [minute |-> DictSet(store.minute, minute_key, minute_count + 1),
     day    |-> DictSet(store.day, day_key, day_count + 1)]

\* What a call that is refused leaves in the credential's store: the cleaned
\* dicts, no counter touched (the raise precedes the increments).
StoreOnDenyCountsMinute(store, minute_key, minute_count) ==
    [store EXCEPT !.minute = DictSet(store.minute, minute_key, minute_count + 1)]
StoreOnDeny(store, minute_key, minute_count) == store

check_rate_limit_shared(rls, api_key_id, rpm_limit, rpd_limit, t) ==
    LET shared == CHOOSE id \in DOMAIN rls : \A j \in DOMAIN rls : id <= j
        minute_key == MinuteKey(t)
        day_key == DayKey(t)
        store == [minute |-> CleanOld(rls[shared].minute, minute_key),
                  day    |-> CleanOld(rls[shared].day, day_key)]
        minute_count == DictGet(store.minute, minute_key, 0)
        day_count == DictGet(store.day, day_key, 0)
    IN  IF LimitReached(minute_count, rpm_limit)
        THEN [exc |-> HTTPException(429, RateLimitDetail(rpm_limit, "minute"),
                                    RetryAfterHeader(t, MinuteLength)),
              rls |-> [rls EXCEPT ![shared] = StoreOnDeny(store, minute_key, minute_count)]]
        ELSE IF LimitReached(day_count, rpd_limit)
        THEN [exc |-> HTTPException(429, RateLimitDetail(rpd_limit, "day"),
                                    RetryAfterHeader(t, DayLength)),
              rls |-> [rls EXCEPT ![shared] = StoreOnDeny(store, minute_key, minute_count)]]
        ELSE [exc |-> NoException,
              rls |-> [rls EXCEPT ![shared] =
                          IncrementCounters(store, minute_key, day_key,
                                            minute_count, day_count)]]
check_rate_limit_day_first(rls, api_key_id, rpm_limit, rpd_limit, t) ==
    LET minute_key == MinuteKey(t)
        day_key == DayKey(t)
        store == [minute |-> CleanOld(rls[api_key_id].minute, minute_key),
                  day    |-> CleanOld(rls[api_key_id].day, day_key)]
        minute_count == DictGet(store.minute, minute_key, 0)
        day_count == DictGet(store.day, day_key, 0)
    IN  IF LimitReached(day_count, rpd_limit)
        THEN [exc |-> HTTPException(429, RateLimitDetail(rpd_limit, "day"),
                                    RetryAfterHeader(t, DayLength)),
              rls |-> [rls EXCEPT ![api_key_id] =
                          StoreOnDeny(store, minute_key, minute_count)]]
        ELSE IF LimitReached(minute_count, rpm_limit)
        THEN [exc |-> HTTPException(429, RateLimitDetail(rpm_limit, "minute"),
                                    RetryAfterHeader(t, MinuteLength)),
              rls |-> [rls EXCEPT ![api_key_id] =
                          StoreOnDeny(store, minute_key, minute_count)]]
        ELSE [exc |-> NoException,
              rls |-> [rls EXCEPT ![api_key_id] =
                          IncrementCounters(store, minute_key, day_key,
                                            minute_count, day_count)]]
check_rate_limit(rls, api_key_id, rpm_limit, rpd_limit, t) ==
    LET minute_key == MinuteKey(t)
        day_key == DayKey(t)
        store == [minute |-> CleanOld(rls[api_key_id].minute, minute_key),
                  day    |-> CleanOld(rls[api_key_id].day, day_key)]
        minute_count == DictGet(store.minute, minute_key, 0)
        day_count == DictGet(store.day, day_key, 0)
    IN  IF LimitReached(minute_count, rpm_limit)
        THEN [exc |-> HTTPException(429, RateLimitDetail(rpm_limit, "minute"),
                                    RetryAfterHeader(t, MinuteLength)),
              rls |-> [rls EXCEPT ![api_key_id] =
                          StoreOnDeny(store, minute_key, minute_count)]]
        ELSE IF LimitReached(day_count, rpd_limit)
        THEN [exc |-> HTTPException(429, RateLimitDetail(rpd_limit, "day"),
                                    RetryAfterHeader(t, DayLength)),
              rls |-> [rls EXCEPT ![api_key_id] =
                          StoreOnDeny(store, minute_key, minute_count)]]
        ELSE [exc |-> NoException,
              rls |-> [rls EXCEPT ![api_key_id] =
                          IncrementCounters(store, minute_key, day_key,
                                            minute_count, day_count)]]

(***************************************************************************)
(* Strings that carry an API key.  A key string is its prefix and its      *)
(* random part; "" is the empty string.  secrets.token_hex(32) draws 256   *)
(* random bits: the n-th draw is modelled as the fresh value n.            *)
(***************************************************************************)
EmptyStr == [pfx |-> "", rand |-> 0]
LiveKey(r) == [pfx |-> "nb_live_", rand |-> r]
OtherKey(r) == [pfx |-> "nb_test_", rand |-> r]

\* key.startswith("nb_live_")
StartsWithLive(key) == key.pfx = "nb_live_"

\* Python truthiness of an Optional[str] and of an Optional[list]
TruthyStr(s) == s # Nothing /\ s[1] # EmptyStr
TruthyList(l) == l # Nothing /\ l[1] # {}

\* hashlib.sha256(key.encode()).hexdigest(): a digest, one-to-one on the
\* key strings of the model and never the key itself.
PrefixCode(pfx) == IF pfx = "nb_live_" THEN 1 ELSE IF pfx = "nb_test_" THEN 2 ELSE 0
hash_api_key(key) == 1000 + 37 * key.rand + PrefixCode(key.pfx)

\* f"nb_live_{random_part[:8]}...": the leading characters of the random part
DisplayPrefix(r) == [pfx |-> "nb_live_", head |-> r \div 2]

\* generate_api_key() at its n-th call: (full_key, key_prefix, key_hash)
generate_api_key(n) ==
    [full_key   |-> LiveKey(n),
     key_prefix |-> DisplayPrefix(n),
     key_hash   |-> hash_api_key(LiveKey(n))]

(***************************************************************************)
(* The user dict the dependencies hand to a handler.                       *)
(***************************************************************************)
NoUser == [id |-> None, api_key_id |-> 0, api_key_scopes |-> {}, auth_method |-> None]

ApiKeyUser(id, record) ==
    [id |-> record.user_id, api_key_id |-> id,
     api_key_scopes |-> record.scopes, auth_method |-> "api_key"]

JwtUserReadOnly(user_id) ==
    [id |-> user_id, api_key_id |-> 0, api_key_scopes |-> {"read"}, auth_method |-> "jwt"]
JwtUser(user_id) ==
    [id |-> user_id, api_key_id |-> 0, api_key_scopes |-> {"*"}, auth_method |-> "jwt"]

\* What a dependency yields: the user (NoUser for None), the exception it
\* raised (NoException for none), and the store and limiter it leaves.
\* When check_scope or check_jwt raises, user still names what
\* get_current_user resolved; no handler runs with it.
OutcomeCountsRefusals(user, exc, db, rls) ==
    [user |-> user, exc |-> exc, rls |-> rls,
     db |-> IF exc.status_code = 0 THEN db
            ELSE [id \in DOMAIN db |-> [db[id] EXCEPT !.total_requests = @ + 1]]]
Outcome(user, exc, db, rls) == [user |-> user, exc |-> exc, db |-> db, rls |-> rls]

(***************************************************************************)
(* validate_api_key(api_key, request), auth.py 82-141.                     *)
(***************************************************************************)
\* supabase.table("api_keys").select("*").eq("key_hash", key_hash)
SelectByHashAnyRow(db, key_hash) == DOMAIN db
SelectByHash(db, key_hash) == {id \in DOMAIN db : db[id].key_hash = key_hash}

\* result.data[0]
FirstRow(ids) == CHOOSE id \in ids : \A j \in ids : id <= j

\* if not api_key_record["is_active"]
IsDisabledNever(record) == FALSE
IsDisabled(record) == ~record.is_active

\* if api_key_record["expires_at"]: ... if expires < datetime.now(timezone.utc)
IsExpiredNever(expires_at, t) == FALSE
IsExpired(expires_at, t) == expires_at # Nothing /\ expires_at[1] < t

\* if api_key_record["allowed_ips"]: client_ip = request.client.host if
\* request.client else None; if client_ip and client_ip not in allowed_ips
IpRefusedNever(allowed_ips, client_ip) == FALSE
IpRefused(allowed_ips, client_ip) ==
    /\ TruthyList(allowed_ips)
    /\ client_ip # Nothing
    /\ client_ip[1] \notin allowed_ips[1]

\* The store when a call reaches it: .execute() returns, or raises
StoreStates == {"up", "reads_fail", "writes_fail"}
ReadFails(store) == store = "reads_fail"
WriteFails(store) == store = "writes_fail"

\* .update({"last_used_at": now, "total_requests": record["total_requests"] + 1})
\*     .eq("id", record["id"])
RecordUse(db, id, record, t) ==
    IF id \in DOMAIN db
    THEN [db EXCEPT ![id] = [@ EXCEPT !.last_used_at = Some(t),
                                      !.total_requests = record.total_requests + 1]]
    ELSE db

validate_api_key(api_key, client_ip, db, rls, t, store) ==
    IF ~TruthyStr(api_key) \/ ~StartsWithLive(api_key[1])
    THEN Outcome(NoUser, NoException, db, rls)
    ELSE IF ReadFails(store)
    THEN Outcome(NoUser, StoreError, db, rls)        \* .select(...).execute() raises
    ELSE LET rows == SelectByHash(db, hash_api_key(api_key[1]))
         IN  IF rows = {}
             THEN Outcome(NoUser, NoException, db, rls)
             ELSE LET id == FirstRow(rows)
                      record == db[id]
                      limit == check_rate_limit(rls, id, record.rate_limit_rpm,
                                                record.rate_limit_rpd, t)
                  IN  IF IsDisabled(record)
                      THEN Outcome(NoUser,
                               HTTPException(401, Detail("API key is disabled"), NoHeaders),
                               db, rls)
                      ELSE IF IsExpired(record.expires_at, t)
                      THEN Outcome(NoUser,
                               HTTPException(401, Detail("API key has expired"), NoHeaders),
                               db, rls)
                      ELSE IF IpRefused(record.allowed_ips, client_ip)
                      THEN Outcome(NoUser,
                               HTTPException(403, Detail("IP address not allowed"), NoHeaders),
                               db, rls)
                      ELSE IF limit.exc # NoException
                      THEN Outcome(NoUser, limit.exc, db, limit.rls)
                      ELSE IF WriteFails(store)     \* .update(...).execute() raises
                      THEN Outcome(NoUser, StoreError, db, limit.rls)
                      ELSE Outcome(ApiKeyUser(id, record), NoException,
                                   RecordUse(db, id, record, t), limit.rls)

(***************************************************************************)
(* validate_jwt(token), auth.py 144-174.  A token is what jwt.decode makes *)
(* of it: whether it decodes, and its "sub" claim (the signature is not    *)
(* verified).                                                              *)
(***************************************************************************)
\* if not user_id: a missing claim (None) and an empty one are both refused
TruthySub(sub) == sub # Nothing /\ sub[1] # ""

Token(decodes, sub) == [decodes |-> decodes, sub |-> sub]

validate_jwt(token) ==
    IF ~token.decodes THEN NoUser                \* except JWTError / Exception
    ELSE IF ~TruthySub(token.sub) THEN NoUser    \* if not user_id
    ELSE JwtUser(token.sub[1])

(***************************************************************************)
(* get_current_user(request, credentials, x_api_key), auth.py 177-203.     *)
(* A request is its X-API-Key header, its bearer credentials and the       *)
(* client address the transport reports, each Optional.                    *)
(***************************************************************************)
Request(x_api_key, credentials, client_ip) ==
    [x_api_key |-> x_api_key, credentials |-> credentials, client_ip |-> client_ip]

\* if x_api_key:
TakesApiKeyPathLiveOnly(x_api_key) == TruthyStr(x_api_key) /\ StartsWithLive(x_api_key[1])
TakesApiKeyPath(x_api_key) == TruthyStr(x_api_key)

get_current_user(req, db, rls, t, store) ==
    IF TakesApiKeyPath(req.x_api_key)
    THEN LET v == validate_api_key(req.x_api_key, req.client_ip, db, rls, t, store)
         IN  IF v.exc # NoException THEN v
             ELSE IF v.user # NoUser THEN v
             ELSE Outcome(NoUser, HTTPException(401, Detail("Invalid API key"), NoHeaders),
                          v.db, v.rls)
    ELSE IF req.credentials # Nothing
    THEN LET user == validate_jwt(req.credentials[1])
         IN  IF user # NoUser THEN Outcome(user, NoException, db, rls)
             ELSE Outcome(NoUser, HTTPException(401, Detail("Invalid token"), NoHeaders),
                          db, rls)
    ELSE Outcome(NoUser, HTTPException(401, Detail("Authentication required"), NoHeaders),
                 db, rls)

(***************************************************************************)
(* require_scope(required_scope) -> check_scope, auth.py 227-249.          *)
(***************************************************************************)
ScopeDetail(required_scope) ==
    [msg |-> "API key lacks required scope", limit |-> 0, what |-> required_scope]

ScopeAllowsReadAll(scopes, required_scope) == "*" \in scopes \/ "read" \in scopes
ScopeAllows(scopes, required_scope) ==
    IF "*" \in scopes THEN TRUE
    ELSE IF required_scope = "read" /\ "read" \in scopes THEN TRUE
    ELSE IF required_scope \notin scopes THEN FALSE
    ELSE TRUE

check_scope(required_scope, auth) ==
    IF auth.exc # NoException THEN auth
    ELSE IF ScopeAllows(auth.user.api_key_scopes, required_scope) THEN auth
    ELSE [auth EXCEPT !.exc = HTTPException(403, ScopeDetail(required_scope), NoHeaders)]

(***************************************************************************)
(* require_jwt_auth() -> check_jwt, auth.py 252-265.                       *)
(***************************************************************************)
JwtRequired == Detail("This operation requires JWT authentication, not API key")

IsApiKeyAuthNever(user) == FALSE
IsApiKeyAuth(user) == user.auth_method = "api_key"

check_jwt(auth) ==
    IF auth.exc # NoException THEN auth
    ELSE IF IsApiKeyAuth(auth.user)
    THEN [auth EXCEPT !.exc = HTTPException(403, JwtRequired, NoHeaders)]
    ELSE auth

(***************************************************************************)
(* Responses.  main.py: a raised HTTPException is answered by              *)
(* http_exception_handler; every response then passes through the          *)
(* add_request_id_and_cache middleware.                                    *)
(***************************************************************************)
\* JSONResponse(status_code=exc.status_code,
\*              content={"error": {"code": exc.status_code, "message": exc.detail}})
http_exception_handler(exc) ==
    [status_code |-> exc.status_code, message |-> exc.detail, headers |-> NoHeaders,
     key |-> Nothing, rows |-> {}]

\* JSONResponse(status_code=500,
\*              content={"error": {"code": 500, "message": "Internal server error", ...}})
general_exception_handler(exc) ==
    [status_code |-> 500, message |-> Detail("Internal server error"), headers |-> NoHeaders,
     key |-> Nothing, rows |-> {}]

\* ApiResponse(data=...): the rows of api_keys the data holds, and its "key"
ApiResponse(key, rows) ==
    [status_code |-> 200, message |-> Detail(""), headers |-> NoHeaders,
     key |-> key, rows |-> rows]

\* The endpoints: method and whether the path matches a CACHE_PATTERNS entry.
Method(op) ==
    CASE op \in {"create_api_key", "rotate_api_key"} -> "POST"
      [] op = "update_api_key" -> "PATCH"
      [] op = "revoke_api_key" -> "DELETE"
      [] OTHER -> "GET"

get_cache_headers(op) ==
    IF Method(op) # "GET" THEN [h \in {"Cache-Control"} |-> "no-store"]
    ELSE IF op = "list_notebooks"
    THEN [h \in {"Cache-Control", "Vary"} |->
             IF h = "Vary" THEN "Authorization, Accept-Encoding" ELSE "private, max-age=60"]
    ELSE [h \in {"Cache-Control", "Vary"} |->
             IF h = "Vary" THEN "Authorization, Accept-Encoding" ELSE "private, max-age=30"]

SecurityHeaders ==
    [h \in {"X-Request-ID", "X-Content-Type-Options", "X-Frame-Options", "X-XSS-Protection"} |->
        CASE h = "X-Request-ID" -> "uuid"
          [] h = "X-Content-Type-Options" -> "nosniff"
          [] h = "X-Frame-Options" -> "DENY"
          [] OTHER -> "1; mode=block"]

add_request_id_and_cache(op, response) ==
    LET cache == IF "Cache-Control" \in DOMAIN response.headers
                 THEN NoHeaders ELSE get_cache_headers(op)
    IN  [response EXCEPT !.headers = SecurityHeaders @@ cache @@ response.headers]

\* The response the caller receives, with the endpoint and key header of the
\* request it answers and what the request resolved to.
Respond(op, req, dep, body) ==
    LET r == add_request_id_and_cache(op, body)
    IN  [op |-> op, x_api_key |-> req.x_api_key,
         status_code |-> r.status_code, message |-> r.message,
         headers |-> r.headers, key |-> r.key, rows |-> r.rows,
         auth_method |-> dep.user.auth_method, api_key_id |-> dep.user.api_key_id]

\* An exception that is no HTTPException propagates through call_next of the
\* middleware, which adds nothing, and is answered by general_exception_handler.
RespondUnhandled(op, req, dep, exc) ==
    LET r == general_exception_handler(exc)
    IN  [op |-> op, x_api_key |-> req.x_api_key,
         status_code |-> r.status_code, message |-> r.message,
         headers |-> r.headers, key |-> r.key, rows |-> r.rows,
         auth_method |-> dep.user.auth_method, api_key_id |-> dep.user.api_key_id]

NoResponse ==
    [op |-> None, x_api_key |-> Nothing,
     status_code |-> 0, message |-> Detail(""), headers |-> NoHeaders,
     key |-> Nothing, rows |-> {}, auth_method |-> None, api_key_id |-> 0]

(***************************************************************************)
(* The api_keys table as the handlers of routers/api_keys.py use it.       *)
(***************************************************************************)
\* create_api_key's data dict; is_active, total_requests and last_used_at
\* are the table's defaults for a new row.
NewRowKeepsKey(user, key_data, gen) ==
    [user_id          |-> user.id,
     key_prefix       |-> gen.full_key,
     key_hash         |-> gen.key_hash,
     scopes           |-> key_data.scopes,
     rate_limit_rpm   |-> key_data.rate_limit_rpm,
     rate_limit_rpd   |-> key_data.rate_limit_rpd,
     expires_at       |-> key_data.expires_at,
     allowed_ips      |-> key_data.allowed_ips,
     is_active        |-> TRUE,
     total_requests   |-> 0,
     last_used_at     |-> Nothing]
NewRow(user, key_data, gen) ==
    [user_id          |-> user.id,
     key_prefix       |-> gen.key_prefix,
     key_hash         |-> gen.key_hash,
     scopes           |-> key_data.scopes,
     rate_limit_rpm   |-> key_data.rate_limit_rpm,
     rate_limit_rpd   |-> key_data.rate_limit_rpd,
     expires_at       |-> key_data.expires_at,
     allowed_ips      |-> key_data.allowed_ips,
     is_active        |-> TRUE,
     total_requests   |-> 0,
     last_used_at     |-> Nothing]

Insert(db, id, row) == [j \in DOMAIN db \cup {id} |-> IF j = id THEN row ELSE db[j]]

\* .eq("id", str(key_id)).eq("user_id", user["id"])
SelectOwnedAnyOwner(db, key_id, user) == {id \in DOMAIN db : id = key_id}
SelectOwned(db, key_id, user) ==
    {id \in DOMAIN db : id = key_id /\ db[id].user_id = user.id}

\* .delete() on the selected rows
DeleteDisables(db, ids) ==
    [j \in DOMAIN db |-> IF j \in ids THEN [db[j] EXCEPT !.is_active = FALSE] ELSE db[j]]
Delete(db, ids) == [j \in DOMAIN db \ ids |-> db[j]]

\* update_api_key's update_dict: the fields of update_data that are not None
UpdateRow(row, update_data) ==
    [row EXCEPT
        !.scopes         = IF update_data.scopes # Nothing THEN update_data.scopes[1] ELSE @,
        !.rate_limit_rpm = IF update_data.rate_limit_rpm # Nothing THEN update_data.rate_limit_rpm[1] ELSE @,
        !.rate_limit_rpd = IF update_data.rate_limit_rpd # Nothing THEN update_data.rate_limit_rpd[1] ELSE @,
        !.is_active      = IF update_data.is_active # Nothing THEN update_data.is_active[1] ELSE @,
        !.expires_at     = IF update_data.expires_at # Nothing THEN update_data.expires_at ELSE @,
        !.allowed_ips    = IF update_data.allowed_ips # Nothing THEN update_data.allowed_ips ELSE @]

\* if not update_dict
NoFieldsToUpdate(update_data) ==
    \A f \in DOMAIN update_data : update_data[f] = Nothing

\* rotate_api_key's .update({"key_prefix": ..., "key_hash": ...})
RotateRowReenables(row, gen) ==
    [row EXCEPT !.key_prefix = gen.key_prefix, !.key_hash = gen.key_hash, !.is_active = TRUE]
RotateRowKeepsHash(row, gen) == [row EXCEPT !.key_prefix = gen.key_prefix]
RotateRow(row, gen) ==
    [row EXCEPT !.key_prefix = gen.key_prefix, !.key_hash = gen.key_hash]

NotFound == HTTPException(404, Detail("API key not found"), NoHeaders)

(***************************************************************************)
(* Inputs.                                                                 *)
(***************************************************************************)
\* The clock when the model starts: the last second of a minute, one minute
\* before the last second of a day.  Requests are observed in the first and
\* in the last second of a minute.
StartTime == DayLength - MinuteLength - 1
EndTime == StartTime + MaxMinutes * MinuteLength
TickSteps == {1, MinuteLength - 1, MinuteLength}

XApiKeys ==
    {Nothing, Some(EmptyStr), Some(OtherKey(1))}
        \cup {Some(LiveKey(1)), Some(LiveKey(MaxIssued + 1))}

Credentials ==
    {Nothing, Some(Token(FALSE, Nothing)), Some(Token(TRUE, Nothing))}
        \cup {Some(Token(TRUE, Some(u))) : u \in Users}

ClientIps == {Nothing} \cup {Some(ip) : ip \in Ips}

Requests ==
    {Request(k, c, ip) : k \in XApiKeys, c \in Credentials, ip \in ClientIps}

\* ApiKeyCreate (schemas.py 488-495): both limits are validated ge=1
KeyData(scopes, rpm, rpd, expires_at, allowed_ips) ==
    [scopes |-> scopes, rate_limit_rpm |-> rpm, rate_limit_rpd |-> rpd,
     expires_at |-> expires_at, allowed_ips |-> allowed_ips]

\* ApiKeyUpdate (schemas.py 524-532): every field Optional
NoUpdate ==
    [scopes |-> Nothing, rate_limit_rpm |-> Nothing, rate_limit_rpd |-> Nothing,
     is_active |-> Nothing, expires_at |-> Nothing, allowed_ips |-> Nothing]

EmptyStore == [minute |-> EmptyDict, day |-> EmptyDict]
EmptyTable == [id \in {} |-> 0]

\* A row as create_api_key stores it for user_id, holding the n-th secret
CreatedRow(user_id, key_data, n) == NewRow(JwtUser(user_id), key_data, generate_api_key(n))

\* A server process and the request it has in hand: nothing (idle), or a
\* request whose key row has been selected and whose usage update is still
\* to be sent; authenticated counts the API-key requests it has authenticated.
Workers == {"w1", "w2"}
IdleWorker(authenticated) ==
    [pc |-> "idle", x_api_key |-> Nothing, api_key_id |-> 0, total_requests |-> 0,
     authenticated |-> authenticated]
NoWorkers == [w \in Workers |-> IdleWorker(0)]

(***************************************************************************)
(* Time passes.                                                            *)
(***************************************************************************)
Tick(d) ==
    /\ now + d <= EndTime
    /\ (now + d) % MinuteLength \in {0, MinuteLength - 1}
    /\ now' = now + d
    /\ UNCHANGED <<api_keys, created, rate_limit_store, issued_for, resp, pending, log, io, workers>>

(***************************************************************************)
(* The rate limiter on its own: calls of check_rate_limit for keys whose   *)
(* limits stay as they were created.                                       *)
(***************************************************************************)
LimiterIds == {1, 2}

\* MaxCalls calls have been received and none has run yet: they are in
\* flight together and the event loop runs them one at a time, in any order,
\* while time passes.
InitLimiter ==
    /\ \E rpm \in 1..MaxRpm, rpd \in 1..MaxRpd :
          api_keys = [id \in LimiterIds |->
                         CreatedRow("u1", KeyData({"*"}, rpm, rpd, Nothing, Nothing), id)]
    /\ created = 2
    /\ rate_limit_store = [id \in LimiterIds |-> EmptyStore]
    /\ now = StartTime
    /\ issued_for = <<1, 2>>
    /\ resp = NoResponse
    /\ \E n \in 0..MaxCalls : pending = [id \in LimiterIds |-> IF id = 1 THEN MaxCalls - n ELSE n]
    /\ log = <<>>
    /\ io = "up"
    /\ workers = NoWorkers

\* One pending call runs check_rate_limit, start to end.
Admit(id) ==
    LET record == api_keys[id]
        limit == check_rate_limit(rate_limit_store, id, record.rate_limit_rpm,
                                  record.rate_limit_rpd, now)
    IN  /\ pending[id] > 0
        /\ pending' = [pending EXCEPT ![id] = @ - 1]
        /\ rate_limit_store' = limit.rls
        /\ log' = Append(log,
                     [id |-> id, t |-> now, inflight |-> pending[id],
                      allowed |-> limit.exc = NoException,
                      window |-> limit.exc.detail.what,
                      retry_after |-> DictGet(limit.exc.headers, "Retry-After", 0)])
        /\ UNCHANGED <<api_keys, created, now, issued_for, resp, io, workers>>

NextLimiter ==
    \/ \E id \in LimiterIds : Admit(id)
    \/ \E d \in TickSteps : Tick(d)

SpecLimiter == InitLimiter /\ [][NextLimiter]_vars

\* The limiter over days: the process keeps running and the next call comes
\* a day later.
TickDay ==
    /\ now + DayLength <= EndTime + MaxDays * DayLength
    /\ now' = now + DayLength
    /\ UNCHANGED <<api_keys, created, rate_limit_store, issued_for, resp, pending, log, io, workers>>

NextDays ==
    \/ \E id \in LimiterIds : Admit(id)
    \/ \E d \in TickSteps : Tick(d)
    \/ TickDay

SpecDays == InitLimiter /\ [][NextDays]_vars


(***************************************************************************)
(* Request handling.  Every handler leaves the table and limiter its       *)
(* dependencies produced, and the response.                                *)
(***************************************************************************)
\* total_requests is capped: a request that would raise it past the bound is
\* not taken.
UsesBounded(db) == \A id \in DOMAIN db : db[id].total_requests <= MaxUses

Finish(op, req, dep, db, body) ==
    /\ UsesBounded(db)
    /\ api_keys' = db
    /\ rate_limit_store' = dep.rls
    /\ resp' = Respond(op, req, dep, body)
    /\ UNCHANGED <<now, pending, log, io, workers>>

\* An exception leaves the dependency or the handler
Fail(op, req, dep, exc) ==
    IF IsHTTPException(exc)
    THEN /\ Finish(op, req, dep, dep.db, http_exception_handler(exc))
         /\ UNCHANGED <<created, issued_for>>
    ELSE /\ api_keys' = dep.db
         /\ rate_limit_store' = dep.rls
         /\ resp' = RespondUnhandled(op, req, dep, exc)
         /\ UNCHANGED <<created, issued_for, now, pending, log, io, workers>>

\* The handler returns ApiResponse(data=...) and has not written to api_keys
Return(op, req, dep, body) ==
    /\ Finish(op, req, dep, dep.db, body)
    /\ UNCHANGED <<created, issued_for>>

\* What get_current_user makes of a request in the current state
Resolve(req) == get_current_user(req, api_keys, rate_limit_store, now, io)

(***************************************************************************)
(* An endpoint behind Depends(get_current_user): routers/notebooks.py      *)
(* list_notebooks (its own table is not modelled).                         *)
(***************************************************************************)
ListNotebooks(req) ==
    LET dep == Resolve(req)
    IN  IF dep.exc # NoException THEN Fail("list_notebooks", req, dep, dep.exc)
        ELSE Return("list_notebooks", req, dep, ApiResponse(Nothing, {}))

(***************************************************************************)
(* An endpoint behind Depends(require_scope(required_scope)).              *)
(***************************************************************************)
ScopedEndpoint(req, required_scope) ==
    LET dep == check_scope(required_scope, Resolve(req))
    IN  IF dep.exc # NoException THEN Fail("scoped", req, dep, dep.exc)
        ELSE Return("scoped", req, dep, ApiResponse(Nothing, {}))

(***************************************************************************)
(* routers/api_keys.py: every endpoint is behind Depends(require_jwt_auth()).*)
(***************************************************************************)
RequireJwtBeforeResolving(req) ==
    IF TakesApiKeyPath(req.x_api_key)
    THEN Outcome(NoUser, HTTPException(403, JwtRequired, NoHeaders), api_keys, rate_limit_store)
    ELSE check_jwt(Resolve(req))
RequireJwt(req) == check_jwt(Resolve(req))

Issued == Len(issued_for)

CreateApiKey(req, key_data) ==
    LET dep == RequireJwt(req)
        gen == generate_api_key(Issued + 1)
        id == created + 1
    IN  IF dep.exc # NoException THEN Fail("create_api_key", req, dep, dep.exc)
        ELSE /\ Issued < MaxIssued
             /\ created < MaxKeys
             /\ issued_for' = Append(issued_for, id)
             /\ created' = id
             /\ Finish("create_api_key", req, dep,
                       Insert(dep.db, id, NewRow(dep.user, key_data, gen)),
                       ApiResponse(Some(gen.full_key), {id}))

ListApiKeys(req) ==
    LET dep == RequireJwt(req)
    IN  IF dep.exc # NoException THEN Fail("list_api_keys", req, dep, dep.exc)
        ELSE Return("list_api_keys", req, dep,
                    ApiResponse(Nothing,
                        {id \in DOMAIN dep.db : dep.db[id].user_id = dep.user.id}))

GetApiKey(req, key_id) ==
    LET dep == RequireJwt(req)
        rows == SelectOwned(dep.db, key_id, dep.user)
    IN  IF dep.exc # NoException THEN Fail("get_api_key", req, dep, dep.exc)
        ELSE IF rows = {} THEN Fail("get_api_key", req, dep, NotFound)
        ELSE Return("get_api_key", req, dep, ApiResponse(Nothing, rows))

UpdateApiKey(req, key_id, update_data) ==
    LET dep == RequireJwt(req)
        rows == SelectOwned(dep.db, key_id, dep.user)
    IN  IF dep.exc # NoException THEN Fail("update_api_key", req, dep, dep.exc)
        ELSE IF NoFieldsToUpdate(update_data)
        THEN Fail("update_api_key", req, dep,
                  HTTPException(400, Detail("No fields to update"), NoHeaders))
        ELSE IF rows = {} THEN Fail("update_api_key", req, dep, NotFound)
        ELSE /\ Finish("update_api_key", req, dep,
                       [id \in DOMAIN dep.db |->
                           IF id \in rows THEN UpdateRow(dep.db[id], update_data)
                           ELSE dep.db[id]],
                       ApiResponse(Nothing, rows))
             /\ UNCHANGED <<created, issued_for>>

RevokeApiKey(req, key_id) ==
    LET dep == RequireJwt(req)
        rows == SelectOwned(dep.db, key_id, dep.user)
    IN  IF dep.exc # NoException THEN Fail("revoke_api_key", req, dep, dep.exc)
        ELSE IF rows = {} THEN Fail("revoke_api_key", req, dep, NotFound)
        ELSE /\ Finish("revoke_api_key", req, dep, Delete(dep.db, rows),
                       ApiResponse(Nothing, {}))
             /\ UNCHANGED <<created, issued_for>>

GetApiKeyUsage(req, key_id) ==
    LET dep == RequireJwt(req)
        rows == SelectOwned(dep.db, key_id, dep.user)
    IN  IF dep.exc # NoException THEN Fail("get_api_key_usage", req, dep, dep.exc)
        ELSE IF rows = {} THEN Fail("get_api_key_usage", req, dep, NotFound)
        ELSE Return("get_api_key_usage", req, dep, ApiResponse(Nothing, rows))

RotateApiKey(req, key_id) ==
    LET dep == RequireJwt(req)
        rows == SelectOwned(dep.db, key_id, dep.user)
        gen == generate_api_key(Issued + 1)
    IN  IF dep.exc # NoException THEN Fail("rotate_api_key", req, dep, dep.exc)
        ELSE IF rows = {} THEN Fail("rotate_api_key", req, dep, NotFound)
        ELSE /\ Issued < MaxIssued
             /\ issued_for' = Append(issued_for, key_id)
             /\ Finish("rotate_api_key", req, dep,
                       [id \in DOMAIN dep.db |->
                           IF id \in rows THEN RotateRow(dep.db[id], gen)
                           ELSE dep.db[id]],
                       ApiResponse(Some(gen.full_key), rows))
             /\ UNCHANGED created

(***************************************************************************)
(* Credential resolution on its own: one key, created with any of the      *)
(* settings below and then enabled or disabled, and requests to an         *)
(* endpoint behind get_current_user while time passes.                     *)
(***************************************************************************)
ExpiryMenu == {Nothing, Some(StartTime)}
AllowedIpsMenu == {Nothing, Some({"10.0.0.1"})}

ResolveKeyData ==
    {KeyData({"*"}, rpm, rpd, e, ips) :
        rpm \in 1..MaxRpm, rpd \in 1..MaxRpd, e \in ExpiryMenu, ips \in AllowedIpsMenu}

InitResolve ==
    /\ \E key_data \in ResolveKeyData, active \in BOOLEAN :
          api_keys = [id \in {1} |->
                         UpdateRow(CreatedRow("u1", key_data, 1),
                                   [NoUpdate EXCEPT !.is_active = Some(active)])]
    /\ created = 1
    /\ rate_limit_store = [id \in KeyIds |-> EmptyStore]
    /\ now = StartTime
    /\ issued_for = <<1>>
    /\ resp = NoResponse
    /\ pending = [id \in LimiterIds |-> 0]
    /\ log = <<>>
    /\ io = "up"
    /\ workers = NoWorkers

NextResolve ==
    \/ \E req \in Requests : ListNotebooks(req)
    \/ \E d \in TickSteps : Tick(d)

SpecResolve == InitResolve /\ [][NextResolve]_vars

(***************************************************************************)
(* The key lifecycle: the service starts with an empty table; users manage *)
(* keys through routers/api_keys.py and use them on an endpoint behind     *)
(* get_current_user.  Requests come from one address.                      *)
(***************************************************************************)
LifecycleRequests ==
    {Request(k, c, Some("10.0.0.1")) :
        k \in {Nothing} \cup {Some(LiveKey(r)) : r \in 1..MaxIssued},
        c \in {Nothing, Some(Token(TRUE, Some("u1")))}}

\* New keys get rate_limit_rpm = 1: the clock stands still in the lifecycle,
\* so each key is admitted once and refused by the minute window afterwards.
CreateMenu == {KeyData(scopes, 1, MaxRpd, Nothing, Nothing) : scopes \in {{"*"}, {"read"}}}

UpdateMenu ==
    {NoUpdate,
     [NoUpdate EXCEPT !.is_active = Some(FALSE)],
     [NoUpdate EXCEPT !.is_active = Some(TRUE)]}

ManagementOps ==
    {"create_api_key", "list_api_keys", "get_api_key", "update_api_key",
     "revoke_api_key", "get_api_key_usage", "rotate_api_key"}

Init ==
    /\ api_keys = EmptyTable
    /\ created = 0
    /\ rate_limit_store = [id \in KeyIds |-> EmptyStore]
    /\ now = StartTime
    /\ issued_for = <<>>
    /\ resp = NoResponse
    /\ pending = [id \in LimiterIds |-> 0]
    /\ log = <<>>
    /\ io = "up"
    /\ workers = NoWorkers

Next ==
    \/ \E req \in LifecycleRequests : ListNotebooks(req)
    \/ \E req \in LifecycleRequests, key_data \in CreateMenu : CreateApiKey(req, key_data)
    \/ \E req \in LifecycleRequests : ListApiKeys(req)
    \/ \E req \in LifecycleRequests, key_id \in KeyIds : GetApiKey(req, key_id)
    \/ \E req \in LifecycleRequests, key_id \in KeyIds, update_data \in UpdateMenu :
          UpdateApiKey(req, key_id, update_data)
    \/ \E req \in LifecycleRequests, key_id \in KeyIds : RevokeApiKey(req, key_id)
    \/ \E req \in LifecycleRequests, key_id \in KeyIds : GetApiKeyUsage(req, key_id)
    \/ \E req \in LifecycleRequests, key_id \in KeyIds : RotateApiKey(req, key_id)

Spec == Init /\ [][Next]_vars

(***************************************************************************)
(* A key in use while its owner manages it: one key, active or disabled,   *)
(* with or without an expiry that has passed; it is presented with each of *)
(* its secrets, its owner changes its minute limit and rotates it, and     *)
(* time passes.                                                            *)
(***************************************************************************)
ManageKeyData ==
    {KeyData({"*"}, rpm, MaxRpd, e, Nothing) : rpm \in 1..MaxRpm, e \in ExpiryMenu}

LimitUpdates == {[NoUpdate EXCEPT !.rate_limit_rpm = Some(rpm)] : rpm \in 1..MaxRpm}

InitManage ==
    /\ \E key_data \in ManageKeyData, active \in BOOLEAN :
          api_keys = [id \in {1} |->
                         UpdateRow(CreatedRow("u1", key_data, 1),
                                   [NoUpdate EXCEPT !.is_active = Some(active)])]
    /\ created = 1
    /\ rate_limit_store = [id \in KeyIds |-> EmptyStore]
    /\ now = StartTime
    /\ issued_for = <<1>>
    /\ resp = NoResponse
    /\ pending = [id \in LimiterIds |-> 0]
    /\ log = <<>>
    /\ io = "up"
    /\ workers = NoWorkers

NextManage ==
    \/ \E req \in LifecycleRequests : ListNotebooks(req)
    \/ \E req \in LifecycleRequests, key_id \in KeyIds, update_data \in LimitUpdates :
          UpdateApiKey(req, key_id, update_data)
    \/ \E req \in LifecycleRequests, key_id \in KeyIds : RotateApiKey(req, key_id)
    \/ \E d \in TickSteps : Tick(d)

SpecManage == InitManage /\ [][NextManage]_vars

(***************************************************************************)
(* Two users manage keys: the service starts with an empty table and each  *)
(* user, authenticated by bearer token, calls the endpoints of             *)
(* routers/api_keys.py with ids of keys of their own and of the other.     *)
(***************************************************************************)
OwnerRequests ==
    {Request(Nothing, Some(Token(TRUE, Some(u))), Some("10.0.0.1")) : u \in Users}

InitOwners ==
    /\ api_keys = EmptyTable
    /\ created = 0
    /\ rate_limit_store = [id \in KeyIds |-> EmptyStore]
    /\ now = StartTime
    /\ issued_for = <<>>
    /\ resp = NoResponse
    /\ pending = [id \in LimiterIds |-> 0]
    /\ log = <<>>
    /\ io = "up"
    /\ workers = NoWorkers

NextOwners ==
    \/ \E req \in OwnerRequests, key_data \in CreateMenu : CreateApiKey(req, key_data)
    \/ \E req \in OwnerRequests : ListApiKeys(req)
    \/ \E req \in OwnerRequests, key_id \in KeyIds : GetApiKey(req, key_id)
    \/ \E req \in OwnerRequests, key_id \in KeyIds, update_data \in UpdateMenu :
          UpdateApiKey(req, key_id, update_data)
    \/ \E req \in OwnerRequests, key_id \in KeyIds : RevokeApiKey(req, key_id)
    \/ \E req \in OwnerRequests, key_id \in KeyIds : GetApiKeyUsage(req, key_id)
    \/ \E req \in OwnerRequests, key_id \in KeyIds : RotateApiKey(req, key_id)

SpecOwners == InitOwners /\ [][NextOwners]_vars

(***************************************************************************)
(* Scope checks on their own: one key of user u1 with any set of scopes,   *)
(* and requests to endpoints behind require_scope(required_scope).         *)
(***************************************************************************)
ScopeRequests ==
    {Request(k, c, Some("10.0.0.1")) :
        k \in {Nothing, Some(LiveKey(1))},
        c \in {Nothing, Some(Token(TRUE, Some("u2")))}}

InitScope ==
    /\ \E scopes \in SUBSET ScopeNames :
          api_keys = [id \in {1} |->
                         CreatedRow("u1", KeyData(scopes, MaxRpm, MaxRpd, Nothing, Nothing), 1)]
    /\ created = 1
    /\ rate_limit_store = [id \in KeyIds |-> EmptyStore]
    /\ now = StartTime
    /\ issued_for = <<1>>
    /\ resp = NoResponse
    /\ pending = [id \in LimiterIds |-> 0]
    /\ log = <<>>
    /\ io = "up"
    /\ workers = NoWorkers

NextScope ==
    \/ \E req \in ScopeRequests, required_scope \in ScopeNames \ {"*"} :
          ScopedEndpoint(req, required_scope)
    \/ \E d \in TickSteps : Tick(d)

SpecScope == InitScope /\ [][NextScope]_vars

(***************************************************************************)
(* Store failures: one active key, requests to an endpoint behind          *)
(* get_current_user while the store goes down and comes back and time      *)
(* passes.                                                                 *)
(***************************************************************************)
FaultRequests ==
    {Request(k, c, Some("10.0.0.1")) :
        k \in {Nothing, Some(OtherKey(1)), Some(LiveKey(1)), Some(LiveKey(MaxIssued + 1))},
        c \in {Nothing, Some(Token(TRUE, Some("u1")))}}

InitFaults ==
    /\ \E rpm \in 1..MaxRpm :
          api_keys = [id \in {1} |->
                         CreatedRow("u1", KeyData({"*"}, rpm, MaxRpd, Nothing, Nothing), 1)]
    /\ created = 1
    /\ rate_limit_store = [id \in KeyIds |-> EmptyStore]
    /\ now = StartTime
    /\ issued_for = <<1>>
    /\ resp = NoResponse
    /\ pending = [id \in LimiterIds |-> 0]
    /\ log = <<>>
    /\ io = "up"
    /\ workers = NoWorkers

\* The store starts or stops failing
StoreChanges(store) ==
    /\ store # io
    /\ io' = store
    /\ UNCHANGED <<api_keys, created, rate_limit_store, now, issued_for, resp, pending, log, workers>>

NextFaults ==
    \/ \E req \in FaultRequests : ListNotebooks(req)
    \/ \E store \in StoreStates : StoreChanges(store)
    \/ \E d \in TickSteps : Tick(d)

SpecFaults == InitFaults /\ [][NextFaults]_vars

(***************************************************************************)
(* Several server processes on one store: every process has its own        *)
(* rate_limit_store and event loop and serves an endpoint behind           *)
(* get_current_user.  Within a process validate_api_key runs start to end; *)
(* across processes its two store calls, the select of the key row and the *)
(* update of its usage columns, are separate calls to the store.           *)
(***************************************************************************)
WorkerRequests ==
    {Request(Some(LiveKey(1)), Nothing, Some("10.0.0.1")),
     Request(Some(LiveKey(MaxIssued + 1)), Nothing, Some("10.0.0.1")),
     Request(Nothing, Some(Token(TRUE, Some("u1"))), Some("10.0.0.1"))}

InitWorkers ==
    /\ \E rpm \in 1..MaxRpm :
          api_keys = [id \in {1} |->
                         CreatedRow("u1", KeyData({"*"}, rpm, MaxRpd, Nothing, Nothing), 1)]
    /\ created = 1
    /\ rate_limit_store = [w \in Workers |-> [id \in KeyIds |-> EmptyStore]]
    /\ now = StartTime
    /\ issued_for = <<1>>
    /\ resp = NoResponse
    /\ pending = [id \in LimiterIds |-> 0]
    /\ log = <<>>
    /\ io = "up"
    /\ workers = NoWorkers

\* API-key requests authenticated so far, and those with the update to send
Served == workers["w1"].authenticated + workers["w2"].authenticated
InHand == Cardinality({w \in Workers : workers[w].pc = "update"})

\* Process w takes a request and runs get_current_user up to the usage
\* update: the select, the checks on the selected row and the limiter of
\* this process.  A request that is refused, or carries no key, is answered.
WorkerSelects(w, req) ==
    LET dep == get_current_user(req, api_keys, rate_limit_store[w], now, io)
    IN  /\ workers[w].pc = "idle"
        /\ Served + InHand < MaxUses
        /\ rate_limit_store' = [rate_limit_store EXCEPT ![w] = dep.rls]
        /\ IF dep.exc # NoException
           THEN /\ resp' = Respond("list_notebooks", req, dep, http_exception_handler(dep.exc))
                /\ UNCHANGED workers
           ELSE IF IsApiKeyAuth(dep.user)
           THEN /\ workers' = [workers EXCEPT ![w] =
                                  [pc |-> "update", x_api_key |-> req.x_api_key,
                                   api_key_id |-> dep.user.api_key_id,
                                   total_requests |-> api_keys[dep.user.api_key_id].total_requests,
                                   authenticated |-> @.authenticated]]
                /\ UNCHANGED resp
           ELSE /\ resp' = Respond("list_notebooks", req, dep, ApiResponse(Nothing, {}))
                /\ UNCHANGED workers
        /\ UNCHANGED <<api_keys, created, now, issued_for, pending, log, io>>

\* Process w sends the update computed from the row it selected; the request
\* is authenticated and the endpoint answers.
WorkerUpdates(w) ==
    LET id == workers[w].api_key_id
        db == RecordUse(api_keys, id, workers[w], now)
        dep == Outcome(ApiKeyUser(id, api_keys[id]), NoException, db, rate_limit_store[w])
    IN  /\ workers[w].pc = "update"
        /\ api_keys' = db
        /\ workers' = [workers EXCEPT ![w] = IdleWorker(@.authenticated + 1)]
        /\ resp' = Respond("list_notebooks", Request(workers[w].x_api_key, Nothing, Nothing),
                           dep, ApiResponse(Nothing, {}))
        /\ UNCHANGED <<created, rate_limit_store, now, issued_for, pending, log, io>>

NextWorkers ==
    \/ \E w \in Workers, req \in WorkerRequests : WorkerSelects(w, req)
    \/ \E w \in Workers : WorkerUpdates(w)
    \/ \E d \in TickSteps : Tick(d)

SpecWorkers == InitWorkers /\ [][NextWorkers]_vars

(***************************************************************************)
(* Rate limiter properties (SpecLimiter).                                  *)
(***************************************************************************)
RpmOf(id) == api_keys[id].rate_limit_rpm
RpdOf(id) == api_keys[id].rate_limit_rpd

\* The calls run before call i for the same key in the same minute window,
\* and those of them, or of the same day window, that were allowed.
EarlierInMinute(i) ==
    {j \in 1..(i - 1) : log[j].id = log[i].id /\ MinuteKey(log[j].t) = MinuteKey(log[i].t)}
AllowedEarlierInMinute(i) == {j \in EarlierInMinute(i) : log[j].allowed}
AllowedEarlierInDay(i) ==
    {j \in 1..(i - 1) : /\ log[j].id = log[i].id
                        /\ DayKey(log[j].t) = DayKey(log[i].t)
                        /\ log[j].allowed}

\* C1: for one key with fixed limits, a call that finds fewer than rpm earlier
\* calls in its minute window and fewer than rpd allowed calls in its day
\* window is allowed; once rpm calls of a minute window have been allowed,
\* every later call in that window is denied with window = minute.
C1_FirstRpmAllowedThenMinuteDenied ==
    \A i \in 1..Len(log) :
        /\ (/\ Cardinality(EarlierInMinute(i)) < RpmOf(log[i].id)
            /\ Cardinality(AllowedEarlierInDay(i)) < RpdOf(log[i].id))
              => log[i].allowed
        /\ Cardinality(AllowedEarlierInMinute(i)) >= RpmOf(log[i].id)
              => (~log[i].allowed /\ log[i].window = "minute")

\* rpm = 2: three calls in one second give allow, allow, deny(minute)
C1_Witness ==
    /\ Len(log) >= 3
    /\ RpmOf(1) = 2
    /\ \A i \in 1..3 : log[i].id = 1 /\ log[i].t = StartTime
    /\ log[1].allowed /\ log[2].allowed
    /\ ~log[3].allowed /\ log[3].window = "minute"

CallsIn(id, m) == {i \in 1..Len(log) : log[i].id = id /\ MinuteKey(log[i].t) = m}
Min(a, b) == IF a <= b THEN a ELSE b

\* C2: however the calls in flight together for one key are ordered, no more
\* than rpm of those run in one minute window are allowed, and exactly
\* min(calls, rpm) are unless the day window denied one of them.
C2_ConcurrentCallsNeverOvershoot ==
    \A i \in 1..Len(log) :
        LET calls == CallsIn(log[i].id, MinuteKey(log[i].t))
            allowed == {j \in calls : log[j].allowed}
        IN  /\ Cardinality(allowed) <= RpmOf(log[i].id)
            /\ (\A j \in calls : log[j].window # "day")
                  => Cardinality(allowed) = Min(Cardinality(calls), RpmOf(log[i].id))

\* a burst of more than rpm + 1 calls, all in flight when the first one runs,
\* has run within one second: rpm allowed, the others denied
C2_Witness ==
    /\ Len(log) = MaxCalls
    /\ log[1].inflight = MaxCalls
    /\ RpmOf(1) + 1 < MaxCalls
    /\ \A i \in 1..Len(log) : log[i].id = 1 /\ log[i].t = StartTime
    /\ Cardinality({i \in 1..Len(log) : log[i].allowed}) = RpmOf(1)
    /\ \A i \in 1..Len(log) : ~log[i].allowed => log[i].window = "minute"

MinuteCount(rls, id, t) == DictGet(rls[id].minute, MinuteKey(t), 0)
DayCount(rls, id, t) == DictGet(rls[id].day, DayKey(t), 0)
LastCall == log'[Len(log')]
CallRuns == Len(log') = Len(log) + 1

MinuteKeys(rls, id) == DOMAIN rls[id].minute
DayKeys(rls, id) == DOMAIN rls[id].day

\* C21: right after a call for a credential at time t, allowed or denied, the
\* credential holds no minute counter with index below floor(t/60) - 1 and no
\* day counter with index below floor(t/86400) - 1, hence at most two counters
\* per window size, however many calls were made and however much time passed.
C21_StaleCountersEvicted ==
    [][CallRuns =>
          LET id == LastCall.id
          IN  /\ \A k \in MinuteKeys(rate_limit_store', id) : k >= MinuteKey(now) - 1
              /\ \A k \in DayKeys(rate_limit_store', id) : k >= DayKey(now) - 1
              /\ Cardinality(MinuteKeys(rate_limit_store', id)) <= 2
              /\ Cardinality(DayKeys(rate_limit_store', id)) <= 2]_vars

\* a credential was counted in one minute and day, and its latest call, two
\* or more days later, has left it with the counters of that call only
C21_Witness ==
    /\ Len(log) >= 2
    /\ now = log[Len(log)].t
    /\ \E j \in 1..(Len(log) - 1) :
          /\ log[j].id = log[Len(log)].id
          /\ log[j].allowed
          /\ DayKey(log[j].t) < DayKey(now) - 1
    /\ log[Len(log)].allowed
    /\ MinuteKeys(rate_limit_store, log[Len(log)].id) = {MinuteKey(now)}
    /\ DayKeys(rate_limit_store, log[Len(log)].id) = {DayKey(now)}

\* The calls allowed for a credential in the minute windows, or day windows,
\* of a set of indices
AllowedInMinutes(id, ms) ==
    {i \in 1..Len(log) : log[i].id = id /\ log[i].allowed /\ MinuteKey(log[i].t) \in ms}
AllowedInDays(id, ds) ==
    {i \in 1..Len(log) : log[i].id = id /\ log[i].allowed /\ DayKey(log[i].t) \in ds}
LoggedMinutes == {MinuteKey(log[i].t) : i \in 1..Len(log)}
LoggedDays == {DayKey(log[i].t) : i \in 1..Len(log)}

\* C22: for a credential with fixed limits, at most rpm calls are allowed in
\* one minute window and at most 2 * rpm in two adjacent ones; at most rpd in
\* one day window and at most 2 * rpd in two adjacent ones.
C22_WindowBounds ==
    \A id \in LimiterIds :
        /\ \A m \in LoggedMinutes :
              /\ Cardinality(AllowedInMinutes(id, {m})) <= RpmOf(id)
              /\ Cardinality(AllowedInMinutes(id, {m, m + 1})) <= 2 * RpmOf(id)
        /\ \A dy \in LoggedDays :
              /\ Cardinality(AllowedInDays(id, {dy})) <= RpdOf(id)
              /\ Cardinality(AllowedInDays(id, {dy, dy + 1})) <= 2 * RpdOf(id)

\* the boundary burst: 2 * rpm = 2 * rpd calls allowed within two seconds,
\* the last second of a day and the first of the next, and a further call
\* denied
C22_Witness ==
    /\ RpmOf(1) = RpdOf(1)
    /\ Len(log) > 2 * RpmOf(1)
    /\ \A i \in 1..Len(log) : log[i].id = 1 /\ log[i].t \in {DayLength - 1, DayLength}
    /\ Cardinality(AllowedInMinutes(1, {MinuteKey(DayLength - 1), MinuteKey(DayLength)}))
          = 2 * RpmOf(1)
    /\ Cardinality(AllowedInDays(1, {0, 1})) = 2 * RpdOf(1)
    /\ ~log[Len(log)].allowed

\* C19: a call that finds the minute count of its key at or above rpm and the
\* day count at or above rpd is denied by the minute window, with the retry
\* time of the minute window, and leaves the day counter as it was.
C19_MinuteBeforeDay ==
    [][(/\ CallRuns
        /\ MinuteCount(rate_limit_store, LastCall.id, now) >= RpmOf(LastCall.id)
        /\ DayCount(rate_limit_store, LastCall.id, now) >= RpdOf(LastCall.id))
          => /\ ~LastCall.allowed
             /\ LastCall.window = "minute"
             /\ LastCall.retry_after = MinuteLength - (now % MinuteLength)
             /\ DayCount(rate_limit_store', LastCall.id, now)
                    = DayCount(rate_limit_store, LastCall.id, now)]_vars

\* a call was denied by the minute window after rpm calls of its minute and
\* rpd calls of its day had been allowed
C19_Witness ==
    \E i \in 1..Len(log) :
        /\ ~log[i].allowed /\ log[i].window = "minute"
        /\ Cardinality(AllowedEarlierInMinute(i)) >= RpmOf(log[i].id)
        /\ Cardinality(AllowedEarlierInDay(i)) >= RpdOf(log[i].id)

WindowLength(window) == IF window = "minute" THEN MinuteLength ELSE DayLength
WindowIndex(t, length) == t \div length
Denied == {i \in 1..Len(log) : ~log[i].allowed}

\* C20: a denial at time t by a window of length L carries retry_after =
\* L - (t mod L), which lies in 1..L, and t + retry_after lies in a window
\* of strictly greater index than t.
C20_RetryAfterReachesNextWindow ==
    \A i \in Denied :
        LET L == WindowLength(log[i].window)
            t == log[i].t
            retry_after == log[i].retry_after
        IN  /\ retry_after = L - (t % L)
            /\ 1 <= retry_after /\ retry_after <= L
            /\ WindowIndex(t + retry_after, L) > WindowIndex(t, L)

\* a denial by the minute window in the last second of the minute (retry
\* after 1) and a denial by the day window
C20_Witness ==
    /\ \E i \in Denied : log[i].window = "minute" /\ log[i].retry_after = 1
    /\ \E i \in Denied : log[i].window = "day"

\* Call i is the first call of its credential in its minute window, and a
\* call of the credential was denied by the minute window in the window before
FirstInMinute(i) ==
    \A j \in 1..(i - 1) :
        log[j].id = log[i].id
            => WindowIndex(log[j].t, MinuteLength) # WindowIndex(log[i].t, MinuteLength)
MinuteDeniedBefore(i) ==
    \E j \in 1..(i - 1) :
        /\ log[j].id = log[i].id
        /\ ~log[j].allowed /\ log[j].window = "minute"
        /\ WindowIndex(log[j].t, MinuteLength) + 1 = WindowIndex(log[i].t, MinuteLength)
AllowedSoFarInDay(i) ==
    {j \in 1..(i - 1) : /\ log[j].id = log[i].id
                        /\ log[j].allowed
                        /\ WindowIndex(log[j].t, DayLength) = WindowIndex(log[i].t, DayLength)}

\* C23: a credential denied by the minute window in window w is allowed on its
\* first call in window w + 1 when fewer than rpd of its calls have been
\* allowed in the day window of that call.
C23_AdmittedAgainNextMinute ==
    \A i \in 1..Len(log) :
        (/\ MinuteDeniedBefore(i)
         /\ FirstInMinute(i)
         /\ Cardinality(AllowedSoFarInDay(i)) < RpdOf(log[i].id))
            => log[i].allowed

\* a credential at its minute limit was denied in the last second of a
\* minute and allowed one second later, in the same day
C23_Witness ==
    \E i \in 2..Len(log) :
        /\ log[i].id = log[i - 1].id
        /\ ~log[i - 1].allowed /\ log[i - 1].window = "minute"
        /\ log[i].t = log[i - 1].t + 1
        /\ WindowIndex(log[i].t, DayLength) = WindowIndex(log[i - 1].t, DayLength)
        /\ log[i].allowed

\* The calls run for one credential, in order, and the limiter's table after
\* the first n of them when no call for another credential is ever made: the
\* process starts with an empty table.
CallsOf(id) == SelectSeq(log, LAMBDA call : call.id = id)

RECURSIVE RunAlone(_, _, _)
RunAlone(id, calls, n) ==
    IF n = 0 THEN [j \in {id} |-> EmptyStore]
    ELSE check_rate_limit(RunAlone(id, calls, n - 1), id, RpmOf(id), RpdOf(id), calls[n].t).rls

OutcomeAlone(id, calls, n) ==
    check_rate_limit(RunAlone(id, calls, n - 1), id, RpmOf(id), RpdOf(id), calls[n].t).exc

\* C25: every call for a credential has the outcome (allowed, or denied with
\* the same window and retry time) it has when the calls for the other
\* credential are left out, and a call changes the counters of no credential
\* but its own.
C25_KeysDoNotInterfere ==
    /\ [](\A id \in LimiterIds :
            LET calls == CallsOf(id)
            IN  \A n \in 1..Len(calls) :
                    LET exc == OutcomeAlone(id, calls, n)
                    IN  /\ calls[n].allowed = (exc = NoException)
                        /\ calls[n].window = exc.detail.what
                        /\ calls[n].retry_after = DictGet(exc.headers, "Retry-After", 0))
    /\ [][CallRuns =>
             \A other \in LimiterIds \ {LastCall.id} :
                 rate_limit_store'[other] = rate_limit_store[other]]_vars

\* two keys of one owner, used in turn within one second: the first has used
\* up its minute and is denied, the second is allowed after that
C25_Witness ==
    /\ Len(log) >= 3
    /\ api_keys[1].user_id = api_keys[2].user_id
    /\ \A i \in 1..Len(log) : log[i].t = StartTime
    /\ \E i \in 1..(Len(log) - 1) :
          /\ log[i].id = 1 /\ ~log[i].allowed
          /\ log[i + 1].id = 2 /\ log[i + 1].allowed

(***************************************************************************)
(* Credential resolution properties (SpecResolve).                         *)
(***************************************************************************)
\* The secret issued last for key id, and a request that presents it
CurrentSecret(id) ==
    LiveKey(CHOOSE r \in 1..Issued :
                issued_for[r] = id /\ \A q \in (r + 1)..Issued : issued_for[q] # id)
PresentsSecretOf(req, id) == req.x_api_key = Some(CurrentSecret(id))
PresentsNoStoredSecret(req) == \A id \in DOMAIN api_keys : ~PresentsSecretOf(req, id)

Authenticated(out) == out.exc = NoException
Is(out, status_code, msg) ==
    out.exc.status_code = status_code /\ out.exc.detail.msg = msg
Expired(out) == Is(out, 401, "API key has expired")

HeaderPresent(x_api_key) == x_api_key # Nothing
HeaderNotEmpty(x_api_key) == x_api_key # Nothing /\ x_api_key[1] # EmptyStr
ValidBearer == Some(Token(TRUE, Some("u1")))

\* C5 as claimed: whenever the X-API-Key header is present the bearer header
\* has no influence on the outcome, which is never a bearer-authenticated
\* context.
C5_Claim_HeaderPresentDecides ==
    \A k \in XApiKeys, ip \in ClientIps :
        HeaderPresent(k) =>
            \A c \in Credentials :
                /\ Resolve(Request(k, c, ip)) = Resolve(Request(k, Nothing, ip))
                /\ Resolve(Request(k, c, ip)).user.auth_method # "jwt"

\* C5 as amended: whenever the X-API-Key header carries a non-empty value the
\* bearer header has no influence on the outcome, which is never a
\* bearer-authenticated context; a key that matches no stored secret then
\* resolves to InvalidCredential whatever bearer token comes with it.
C5_NonEmptyKeyDecides ==
    \A k \in XApiKeys, ip \in ClientIps :
        HeaderNotEmpty(k) =>
            \A c \in Credentials :
                LET out == Resolve(Request(k, c, ip))
                IN  /\ out = Resolve(Request(k, Nothing, ip))
                    /\ out.user.auth_method # "jwt"
                    /\ PresentsNoStoredSecret(Request(k, c, ip))
                          => Is(out, 401, "Invalid API key")

\* the last request carried a key that matches no stored secret; together
\* with a valid bearer token it is answered 401 Invalid API key
C5_Witness ==
    \E req \in Requests :
        /\ HeaderNotEmpty(req.x_api_key)
        /\ PresentsNoStoredSecret(req)
        /\ req.credentials = ValidBearer
        /\ resp.x_api_key = req.x_api_key
        /\ resp.status_code = 401
        /\ resp.message = Detail("Invalid API key")
        /\ resp = Respond("list_notebooks", req, Resolve(req),
                          http_exception_handler(Resolve(req).exc))

\* C6: a request presenting the secret of an active key whose expires_at is
\* earlier than the clock resolves to Expired, whatever its source address,
\* its bearer header and the quota left; a key without expires_at never
\* resolves to Expired.
C6_ExpiredKeyIsRefused ==
    \A req \in Requests : \A id \in DOMAIN api_keys :
        PresentsSecretOf(req, id) =>
            /\ (/\ api_keys[id].is_active
                /\ api_keys[id].expires_at # Nothing
                /\ api_keys[id].expires_at[1] < now)
                  => (Expired(Resolve(req)) /\ ~Authenticated(Resolve(req)))
            /\ api_keys[id].expires_at = Nothing => ~Expired(Resolve(req))

\* the key's secret has just been answered "expired" although the key is
\* active, its day quota is used up and the key had been used before
C6_Witness ==
    /\ resp.x_api_key = Some(CurrentSecret(1))
    /\ resp.status_code = 401
    /\ resp.message = Detail("API key has expired")
    /\ api_keys[1].is_active
    /\ api_keys[1].expires_at # Nothing /\ api_keys[1].expires_at[1] < now
    /\ DayCount(rate_limit_store, 1, now) >= api_keys[1].rate_limit_rpd

\* C7 as claimed: for an active, unexpired key with allowed_ips set, a request
\* is authenticated only from an address in allowed_ips; from any other
\* address, or with no client address, it resolves to Forbidden.
C7_Claim_OnlyAllowedAddresses ==
    \A req \in Requests : \A id \in DOMAIN api_keys :
        (/\ PresentsSecretOf(req, id)
         /\ api_keys[id].is_active
         /\ ~(api_keys[id].expires_at # Nothing /\ api_keys[id].expires_at[1] < now)
         /\ api_keys[id].allowed_ips # Nothing)
            => LET allowed == /\ req.client_ip # Nothing
                              /\ req.client_ip[1] \in api_keys[id].allowed_ips[1]
               IN  /\ Authenticated(Resolve(req)) => allowed
                   /\ ~allowed => Is(Resolve(req), 403, "IP address not allowed")

\* C9 as claimed: the response to a rate-limited request names the window
\* that was exceeded and carries Retry-After with the seconds left until
\* that window rolls over.
RateLimitedResponse(req) ==
    Respond("list_notebooks", req, Resolve(req), http_exception_handler(Resolve(req).exc))

C9_Claim_RetryAfterReachesCaller ==
    \A req \in Requests :
        Resolve(req).exc.status_code = 429 =>
            LET r == RateLimitedResponse(req)
                length == IF r.message.what = "minute" THEN MinuteLength ELSE DayLength
            IN  /\ r.status_code = 429
                /\ r.message.what \in {"minute", "day"}
                /\ "Retry-After" \in DOMAIN r.headers
                /\ r.headers["Retry-After"] = length - (now % length)

\* The limiter's table with both windows of key id used up at this time
Exhausted(id) ==
    [rate_limit_store EXCEPT ![id] =
        [minute |-> DictSet(@.minute, MinuteKey(now), api_keys[id].rate_limit_rpm),
         day    |-> DictSet(@.day, DayKey(now), api_keys[id].rate_limit_rpd)]]

Usage(db) ==
    [id \in DOMAIN db |->
        [total_requests |-> db[id].total_requests, last_used_at |-> db[id].last_used_at]]

\* The refusals of get_current_user that precede the limiter
RefusedBeforeLimiter ==
    {Detail("Authentication required"), Detail("Invalid API key"), Detail("Invalid token"),
     Detail("API key is disabled"), Detail("API key has expired"),
     Detail("IP address not allowed")}

\* C24: a request that get_current_user refuses as unauthenticated, invalid,
\* disabled, expired or forbidden leaves the limiter's table and every row's
\* total_requests and last_used_at as they were; a request it refuses as
\* rate limited leaves every row's total_requests and last_used_at as they
\* were.
C24_RefusalsLeaveCounters ==
    [][/\ (now' = now /\ resp'.message \in RefusedBeforeLimiter)
            => (/\ resp'.status_code \in {401, 403}
                /\ rate_limit_store' = rate_limit_store
                /\ Usage(api_keys') = Usage(api_keys))
       /\ (now' = now /\ resp'.status_code = 429)
            => Usage(api_keys') = Usage(api_keys)]_vars

\* a key that has been used and counted has just been refused from an
\* address outside its allow-list
C24_Witness ==
    /\ resp.status_code = 403
    /\ resp.message = Detail("IP address not allowed")
    /\ api_keys[1].total_requests > 0
    /\ MinuteCount(rate_limit_store, 1, now) > 0

(***************************************************************************)
(* Key lifecycle properties (Spec).                                        *)
(***************************************************************************)
\* The secrets that were issued for key id before its current one
SupersededSecrets(id) ==
    {LiveKey(r) : r \in {q \in 1..Issued : issued_for[q] = id}} \ {CurrentSecret(id)}

\* C3: once rotate_api_key has replaced the secret of a key, every request
\* presenting a pre-rotation secret resolves to InvalidCredential, never to
\* an authenticated context, and at no time do two secrets validate for the
\* same record.
C3_RotatedSecretIsInvalid ==
    \A id \in DOMAIN api_keys :
        /\ \A req \in LifecycleRequests :
              (req.x_api_key # Nothing /\ req.x_api_key[1] \in SupersededSecrets(id))
                  => (Is(Resolve(req), 401, "Invalid API key") /\ ~Authenticated(Resolve(req)))
        /\ Cardinality({r \in 1..Issued :
                          id \in SelectByHash(api_keys, hash_api_key(LiveKey(r)))}) <= 1

\* a key was used, then rotated, and its pre-rotation secret has just been
\* answered 401 Invalid API key
C3_Witness ==
    \E id \in DOMAIN api_keys :
        /\ resp.op = "list_notebooks"
        /\ resp.x_api_key # Nothing
        /\ resp.x_api_key[1] \in SupersededSecrets(id)
        /\ resp.status_code = 401
        /\ resp.message = Detail("Invalid API key")
        /\ api_keys[id].total_requests > 0
        /\ api_keys[id].is_active

\* The table without the usage fields validate_api_key maintains
Managed(db) ==
    [id \in DOMAIN db |-> [db[id] EXCEPT !.total_requests = 0, !.last_used_at = Nothing]]

\* C4: a request to an /api-keys endpoint that resolved to an API-key context
\* is answered 403 whatever scopes the key has, and no key is created,
\* changed, deleted or rotated by it; a request that resolved to a bearer
\* context is never answered 403, and only such a request is served.
C4_ManagementNeedsBearer ==
    [][ (resp'.op \in ManagementOps /\ now' = now) =>
            /\ resp'.auth_method = "api_key" =>
                  /\ resp'.status_code = 403
                  /\ resp'.message = JwtRequired
                  /\ resp'.key = Nothing
                  /\ Managed(api_keys') = Managed(api_keys)
                  /\ created' = created
                  /\ issued_for' = issued_for
            /\ resp'.auth_method = "jwt" => resp'.status_code # 403
            /\ resp'.status_code = 200 => resp'.auth_method = "jwt" ]_vars

\* a key holding the wildcard scope has just been refused on rotate_api_key
C4_Witness ==
    /\ resp.op = "rotate_api_key"
    /\ resp.auth_method = "api_key"
    /\ resp.status_code = 403
    /\ resp.api_key_id \in DOMAIN api_keys
    /\ api_keys[resp.api_key_id].scopes = {"*"}

(***************************************************************************)
(* Scope check properties (SpecScope).                                     *)
(***************************************************************************)
\* The scopes an authenticated context grants: the key's, or ["*"] for a
\* bearer context
Granted(auth) ==
    IF auth.user.auth_method = "api_key" THEN api_keys[auth.user.api_key_id].scopes
    ELSE {"*"}

\* C8: require_scope(required) lets an authenticated context through exactly
\* when its granted scopes contain "*" or contain required itself; otherwise
\* it answers 403 with a message that names required.
C8_ScopeAllowsExactly ==
    \A req \in ScopeRequests : \A required \in ScopeNames \ {"*"} :
        LET auth == Resolve(req)
            out == check_scope(required, auth)
        IN  Authenticated(auth) =>
                /\ Authenticated(out) <=> ("*" \in Granted(auth) \/ required \in Granted(auth))
                /\ ~Authenticated(out) =>
                      /\ out.exc.status_code = 403
                      /\ out.exc.detail.msg = "API key lacks required scope"
                      /\ out.exc.detail.what = required
                /\ out.db = auth.db /\ out.rls = auth.rls

\* a key granted only "read" has just been refused on an endpoint that
\* requires "notebooks", with a message naming "notebooks"
C8_Witness ==
    /\ resp.op = "scoped"
    /\ resp.auth_method = "api_key"
    /\ api_keys[1].scopes = {"read"}
    /\ resp.status_code = 403
    /\ resp.message.what = "notebooks"

\* Bearer tokens: undecodable, decodable without "sub", with an empty "sub",
\* and with the id of a user as "sub"
BearerTokens ==
    {Token(FALSE, Nothing), Token(TRUE, Nothing), Token(TRUE, Some(""))}
        \cup {Token(TRUE, Some(u)) : u \in Users}

HasSubject(token) == token.decodes /\ token.sub # Nothing /\ token.sub[1] # ""

\* C17: without an X-API-Key header, a bearer token that cannot be decoded or
\* carries no subject is answered 401 "Invalid token"; a token with a subject
\* resolves to that subject as principal with method jwt and scopes ["*"],
\* passes require_scope for every scope, and changes no state.
C17_BearerPath ==
    \A token \in BearerTokens, ip \in ClientIps :
        LET out == Resolve(Request(Nothing, Some(token), ip))
        IN  IF HasSubject(token)
            THEN /\ Authenticated(out)
                 /\ out.user.id = token.sub[1]
                 /\ out.user.auth_method = "jwt"
                 /\ out.user.api_key_scopes = {"*"}
                 /\ \A required \in ScopeNames : Authenticated(check_scope(required, out))
                 /\ out.db = api_keys /\ out.rls = rate_limit_store
            ELSE /\ Is(out, 401, "Invalid token")
                 /\ out.user = NoUser

\* a bearer-authenticated request has just passed a scope check that the
\* stored key, which grants no scope, would fail
C17_Witness ==
    /\ resp.op = "scoped"
    /\ resp.x_api_key = Nothing
    /\ resp.auth_method = "jwt"
    /\ resp.status_code = 200
    /\ api_keys[1].scopes = {}

\* C18 (as stated): whenever no request is between its select and its
\* update, total_requests of the key has grown by the number of API-key
\* requests authenticated with it, whichever processes served them.
C18_Claim_EveryRequestCounted ==
    InHand = 0 => api_keys[1].total_requests = Served

\* The columns rotate_api_key writes, and a row without them
RotatedColumns == {"key_hash", "key_prefix"}
Kept(row) == [c \in DOMAIN row \ RotatedColumns |-> row[c]]

\* The step is a rotation that succeeded: a secret was issued for a stored key
Rotates == issued_for' # issued_for /\ resp'.op = "rotate_api_key"
Rotated == issued_for'[Len(issued_for')]

\* C26: a rotation changes the hash and the display prefix of the rotated row
\* and nothing else in the table, and leaves the limiter's table as it was;
\* the new secret is answered as the old one was just before, so a key that
\* has used up a window is still rate limited, and a disabled or expired key
\* is still disabled or expired.
C26_RotationKeepsTheRest ==
    [][Rotates =>
          LET old == Request(Some(CurrentSecret(Rotated)), Nothing, Some("10.0.0.1"))
              new == Request(resp'.key, Nothing, Some("10.0.0.1"))
              before == get_current_user(old, api_keys, rate_limit_store, now, io)
              after  == get_current_user(new, api_keys', rate_limit_store', now', io')
          IN  /\ resp'.status_code = 200
              /\ DOMAIN api_keys' = DOMAIN api_keys
              /\ \A id \in DOMAIN api_keys :
                    IF id = Rotated
                    THEN /\ Kept(api_keys'[id]) = Kept(api_keys[id])
                         /\ api_keys'[id].key_hash = hash_api_key(resp'.key[1])
                         /\ api_keys'[id].key_hash # api_keys[id].key_hash
                    ELSE api_keys'[id] = api_keys[id]
              /\ rate_limit_store' = rate_limit_store
              /\ after.exc = before.exc
              /\ after.user = before.user]_vars

\* a key that has used up its minute has just been rotated, and its new
\* secret is rate limited
C26_Witness ==
    /\ resp.op = "rotate_api_key"
    /\ resp.status_code = 200
    /\ MinuteCount(rate_limit_store, 1, now) >= api_keys[1].rate_limit_rpm
    /\ api_keys[1].total_requests > 0
    /\ Resolve(Request(resp.key, Nothing, Some("10.0.0.1"))).exc.status_code = 429

\* Requests that carry both a key and a valid bearer token
BothCredentials == {req \in LifecycleRequests : req.x_api_key # Nothing /\ req.credentials = ValidBearer}

\* C27: a request to a bearer-only operation that carries a valid bearer token
\* and an API key that get_current_user accepts is refused 403 "requires JWT
\* authentication", and the refusal has counted one call in the key's minute
\* and day windows and added one to its total_requests.
C27_RefusedAfterCounting ==
    \A req \in BothCredentials : \A id \in DOMAIN api_keys :
        (PresentsSecretOf(req, id) /\ Authenticated(Resolve(req))) =>
            LET out == RequireJwt(req)
            IN  /\ out.exc = HTTPException(403, JwtRequired, NoHeaders)
                /\ MinuteCount(out.rls, id, now) = MinuteCount(rate_limit_store, id, now) + 1
                /\ DayCount(out.rls, id, now) = DayCount(rate_limit_store, id, now) + 1
                /\ out.db[id].total_requests = api_keys[id].total_requests + 1
                /\ out.db[id].last_used_at = Some(now)

\* the first use ever made of a key was on a bearer-only operation: it was
\* refused 403, and the key has one request counted
C27_Witness ==
    /\ resp.op \in {"update_api_key", "rotate_api_key"}
    /\ resp.x_api_key = Some(CurrentSecret(1))
    /\ resp.status_code = 403
    /\ resp.message = JwtRequired
    /\ api_keys[1].total_requests = 1
    /\ api_keys[1].last_used_at = Some(now)
    /\ MinuteCount(rate_limit_store, 1, now) = 1
    /\ DayCount(rate_limit_store, 1, now) = 1

\* A key the checks before the limiter let through
Usable(row) == row.is_active /\ ~(row.expires_at # Nothing /\ row.expires_at[1] < now)

\* The step is an update of a key that succeeded
Updates == now' = now /\ resp'.op = "update_api_key" /\ resp'.status_code = 200

\* C28: a request presenting a usable key is refused by the minute window
\* exactly when the key's count for the current minute is at or above the
\* rate_limit_rpm its row holds now, whatever the limit was when the count
\* was made, and is admitted when that count and the day count are below the
\* row's limits; an update of the key changes no counter.
C28_CurrentLimitsDecide ==
    /\ [](\A req \in LifecycleRequests : \A id \in DOMAIN api_keys :
            (PresentsSecretOf(req, id) /\ Usable(api_keys[id])) =>
                LET out == Resolve(req)
                    minute_count == MinuteCount(rate_limit_store, id, now)
                    day_count == DayCount(rate_limit_store, id, now)
                IN  /\ minute_count >= api_keys[id].rate_limit_rpm
                        <=> (/\ out.exc.status_code = 429
                             /\ out.exc.detail = RateLimitDetail(api_keys[id].rate_limit_rpm, "minute"))
                    /\ (/\ minute_count < api_keys[id].rate_limit_rpm
                        /\ day_count < api_keys[id].rate_limit_rpd)
                          => (/\ Authenticated(out)
                              /\ MinuteCount(out.rls, id, now) = minute_count + 1))
    /\ [][Updates =>
             /\ rate_limit_store' = rate_limit_store
             /\ Usage(api_keys') = Usage(api_keys)]_vars

\* a key admitted twice in a minute under limit 2, then lowered to 1, has just
\* been refused in that minute with the new limit in the message
C28_Witness ==
    /\ resp.status_code = 429
    /\ resp.message = RateLimitDetail(1, "minute")
    /\ api_keys[1].rate_limit_rpm = 1
    /\ MinuteCount(rate_limit_store, 1, now) = 2

\* The principal of a bearer request, and a stored key that is not theirs
Caller(req) == req.credentials[1].sub[1]
Foreign(req, key_id) ==
    key_id \in DOMAIN api_keys /\ api_keys[key_id].user_id # Caller(req)

AnsweredNotFound ==
    /\ resp'.status_code = 404
    /\ resp'.message = Detail("API key not found")
    /\ resp'.rows = {}
    /\ resp'.key = Nothing
    /\ api_keys' = api_keys

ListsOnlyOwn(req) ==
    ListApiKeys(req) =>
        resp'.rows = {id \in DOMAIN api_keys : api_keys[id].user_id = Caller(req)}

\* C29 (as stated): get, update, revoke, rotate and usage called by a
\* bearer-authenticated user with the id of a key of another user answer 404
\* "API key not found" and leave the table as it was, and list returns the
\* caller's own rows only.
C29_Claim_ForeignKeyNotFound ==
    [][\A req \in OwnerRequests :
          /\ ListsOnlyOwn(req)
          /\ \A key_id \in KeyIds :
                (/\ Foreign(req, key_id)
                 /\ \/ GetApiKey(req, key_id)
                    \/ \E update_data \in UpdateMenu : UpdateApiKey(req, key_id, update_data)
                    \/ RevokeApiKey(req, key_id)
                    \/ GetApiKeyUsage(req, key_id)
                    \/ RotateApiKey(req, key_id))
                  => AnsweredNotFound]_vars

\* C29 (as amended): the same, except that an update that names no field is
\* answered 400 "No fields to update" whoever owns the key, the table left
\* as it was.
C29_ForeignKeyUntouched ==
    [][\A req \in OwnerRequests :
          /\ ListsOnlyOwn(req)
          /\ \A key_id \in KeyIds :
                Foreign(req, key_id) =>
                    /\ (\/ GetApiKey(req, key_id)
                        \/ \E update_data \in UpdateMenu \ {NoUpdate} :
                              UpdateApiKey(req, key_id, update_data)
                        \/ RevokeApiKey(req, key_id)
                        \/ GetApiKeyUsage(req, key_id)
                        \/ RotateApiKey(req, key_id))
                          => AnsweredNotFound
                    /\ UpdateApiKey(req, key_id, NoUpdate)
                          => (/\ resp'.status_code = 400
                              /\ resp'.message = Detail("No fields to update")
                              /\ resp'.rows = {} /\ resp'.key = Nothing
                              /\ api_keys' = api_keys)]_vars

\* a key exists and a rotation has just been answered "not found": the
\* caller was not its owner
C29_Witness ==
    /\ DOMAIN api_keys = KeyIds
    /\ resp.op = "rotate_api_key"
    /\ resp.status_code = 404
    /\ resp.auth_method = "jwt"

\* The columns of a row that are derived from the key string
SecretColumns == {"key_prefix", "key_hash"}
RowColumns ==
    {"user_id", "scopes", "rate_limit_rpm", "rate_limit_rpd", "expires_at", "allowed_ips",
     "is_active", "total_requests", "last_used_at"} \cup SecretColumns

\* Of a key string the store holds its digest and its display prefix, which
\* other key strings share, and nothing else
HoldsOnlyHashAndPrefix(id) ==
    /\ DOMAIN api_keys[id] = RowColumns
    /\ api_keys[id].key_hash = hash_api_key(CurrentSecret(id))
    /\ api_keys[id].key_prefix = DisplayPrefix(CurrentSecret(id).rand)
    /\ \E r \in 0..(MaxIssued + 1) :
          LiveKey(r) # CurrentSecret(id) /\ DisplayPrefix(r) = api_keys[id].key_prefix

\* C11: the store holds for each key only the digest and the truncated
\* display prefix of its secret; a response carries a full secret only when
\* it is the 200 answer of the create or rotate request that generated that
\* secret, and every generated secret is returned by that answer.
C11_SecretStoredNowhereReturnedOnce ==
    /\ [](\A id \in DOMAIN api_keys : HoldsOnlyHashAndPrefix(id))
    /\ [][ /\ resp'.key # Nothing =>
                /\ Issued' = Issued + 1
                /\ resp'.key = Some(LiveKey(Issued'))
                /\ resp'.op \in {"create_api_key", "rotate_api_key"}
                /\ resp'.status_code = 200
           /\ Issued' # Issued =>
                /\ Issued' = Issued + 1
                /\ resp'.key = Some(LiveKey(Issued')) ]_vars

\* a key has been rotated: the answer carries the new secret, and the next
\* answers about that key will not
C11_Witness ==
    \E id \in DOMAIN api_keys :
        /\ resp.op = "rotate_api_key"
        /\ resp.status_code = 200
        /\ id \in resp.rows
        /\ resp.key = Some(CurrentSecret(id))
        /\ SupersededSecrets(id) # {}

\* Key strings a caller may present: empty, with a wrong prefix, or
\* well-formed with a random part that was drawn or never drawn
PresentedKeys ==
    {Some(EmptyStr)}
        \cup {Some(OtherKey(r)) : r \in 0..(MaxIssued + 1)}
        \cup {Some(LiveKey(r)) : r \in 0..(MaxIssued + 1)}

UnderLimits(id) ==
    /\ MinuteCount(rate_limit_store, id, now) < api_keys[id].rate_limit_rpm
    /\ DayCount(rate_limit_store, id, now) < api_keys[id].rate_limit_rpd

RevokedSecrets == {LiveKey(r) : r \in {q \in 1..Issued : issued_for[q] \notin DOMAIN api_keys}}

\* The tables a later create_api_key or rotate_api_key can make of this one:
\* a row is inserted, or a stored row rotated, with the secret drawn next
LaterTables ==
    LET gen == generate_api_key(Issued + 1)
    IN  {Insert(api_keys, created + 1, NewRow(JwtUser(u), key_data, gen)) :
             u \in Users, key_data \in CreateMenu}
          \cup {[api_keys EXCEPT ![id] = RotateRow(@, gen)] : id \in DOMAIN api_keys}
          \cup {[api_keys EXCEPT ![id] = UpdateRow(@, update_data)] :
                   id \in DOMAIN api_keys, update_data \in UpdateMenu}

InvalidIn(db, req) ==
    Is(get_current_user(req, db, rate_limit_store, now, io), 401, "Invalid API key")

BearerOnly(req) == req.x_api_key = Nothing /\ req.credentials = ValidBearer

RequestHandled == now' = now /\ io' = io /\ resp'.op = "list_notebooks"

\* validate_api_key reaches the lookup for this header value
ReachesLookup(x_api_key) ==
    x_api_key # Nothing /\ x_api_key[1] # EmptyStr /\ x_api_key[1].pfx = "nb_live_"

AuthFailureCodes == {401, 403, 429}

\* C13: when the lookup of a presented key fails in the store, the request
\* is answered with a service error (500), never with an authentication
\* failure and never as authenticated, and neither the table nor the rate
\* counters change.
C13_LookupFailureIsServiceError ==
    [][ (RequestHandled /\ io = "reads_fail" /\ ReachesLookup(resp'.x_api_key)) =>
            /\ resp'.status_code = 500
            /\ resp'.status_code \notin AuthFailureCodes
            /\ resp'.message = Detail("Internal server error")
            /\ resp'.auth_method = None
            /\ api_keys' = api_keys
            /\ rate_limit_store' = rate_limit_store ]_vars

\* the stored key was presented while lookups fail, after it had been used
C13_Witness ==
    /\ io = "reads_fail"
    /\ resp.x_api_key = Some(CurrentSecret(1))
    /\ resp.status_code = 500
    /\ api_keys[1].total_requests > 0

\* C14 as claimed: when the write of last_used_at and total_requests fails
\* for a request that passed every check and was admitted by the limiter,
\* the caller still gets the authenticated business response.
C14_Claim_UsageWriteFailureHidden ==
    [][ (/\ RequestHandled
         /\ io = "writes_fail"
         /\ resp'.x_api_key = Some(CurrentSecret(1))
         /\ api_keys[1].is_active
         /\ UnderLimits(1)) =>
            /\ resp'.status_code = 200
            /\ resp'.auth_method = "api_key" ]_vars

\* C15 as claimed: once a key's is_active is false it stays false and the
\* record stays stored, whatever requests and key-management operations
\* follow.
C15_Claim_DisabledForever ==
    [][ \A id \in DOMAIN api_keys :
            ~api_keys[id].is_active =>
                /\ id \in DOMAIN api_keys'
                /\ ~api_keys'[id].is_active ]_vars

\* C15 as amended: while a key's is_active is false every request presenting
\* its secret is answered 401 "API key is disabled" and changes neither the
\* table nor the rate counters; the flag stays false, the record stored and
\* total_requests as it was in every step except a successful update_api_key
\* or revoke_api_key of a bearer-authenticated caller.
C15_DisabledUntilOwnerActs ==
    /\ [](\A id \in DOMAIN api_keys : \A req \in LifecycleRequests :
              (~api_keys[id].is_active /\ PresentsSecretOf(req, id)) =>
                  /\ Is(Resolve(req), 401, "API key is disabled")
                  /\ Resolve(req).user = NoUser
                  /\ Resolve(req).db = api_keys
                  /\ Resolve(req).rls = rate_limit_store)
    /\ [][ \A id \in DOMAIN api_keys :
              ~api_keys[id].is_active =>
                  \/ /\ id \in DOMAIN api_keys'
                     /\ ~api_keys'[id].is_active
                     /\ api_keys'[id].total_requests = api_keys[id].total_requests
                  \/ /\ resp'.op \in {"update_api_key", "revoke_api_key"}
                     /\ resp'.status_code = 200
                     /\ resp'.auth_method = "jwt" ]_vars

\* a key was used, then disabled, and its secret has just been answered
\* 401 "API key is disabled"
C15_Witness ==
    \E id \in DOMAIN api_keys :
        /\ ~api_keys[id].is_active
        /\ api_keys[id].total_requests > 0
        /\ resp.op = "list_notebooks"
        /\ resp.x_api_key = Some(CurrentSecret(id))
        /\ resp.status_code = 401
        /\ resp.message = Detail("API key is disabled")

====
